---- MODULE Spec2Model ----
(***************************************************************************)
(* Model of the TaskFlow API request handlers: the project, task, comment  *)
(* and activity controllers over the Project, Task, Comment and            *)
(* ActivityLog collections.  Every handler is one action; its branches are *)
(* the early returns of the code, in the order of the code.                *)
(***************************************************************************)
EXTENDS Integers, Sequences, FiniteSets, TLC

(* Bounds of the model. *)
MaxProjects == 2
MaxTasks == 2
MaxComments == 1
MaxLog == 5
MaxProbes == 1
MaxPage == 2
MaxLimit == 2
MaxRun == 8
MaxCalls == 2

(* The identity store is external: three callers, one of each global role. *)
Users == {"A", "B", "C"}
Role == [u \in Users |-> CASE u = "A" -> "user" [] u = "B" -> "manager" [] OTHER -> "admin"]

VARIABLES projects, tasks, comments, log,
          nextProject, nextTask, nextComment,
          req, res, pre, errors, probes, inflight

stores == <<projects, tasks, comments, log>>
vars == <<projects, tasks, comments, log, nextProject, nextTask, nextComment,
          req, res, pre, errors, probes, inflight>>

(* ------------------------------------------------------------------ *)
(* Store primitives (mongoose)                                         *)
(* ------------------------------------------------------------------ *)

(* MongooseArray.includes: some element equals the id. *)
Includes(arr, id) == \E i \in 1..Len(arr) : arr[i] = id

(* Array.prototype.filter keeping the elements that differ from id. *)
FilterOut(arr, id) == SelectSeq(arr, LAMBDA m : m # id)

(* findByIdAndUpdate(id, body): $set of the fields the body supplies. *)
Merge(doc, body) == [f \in DOMAIN doc |-> IF f \in DOMAIN body THEN body[f] ELSE doc[f]]

(* Model.create / findByIdAndDelete / deleteMany on a collection. *)
Insert(coll, id, doc) == (id :> doc) @@ coll
Remove(coll, ids) == [k \in DOMAIN coll \ ids |-> coll[k]]

(* sort('-createdAt') on a collection: ids are issued in the order of   *)
(* creation, so the newest document has the largest id.                 *)
RECURSIVE Newest(_)
Newest(ids) ==
  IF ids = {} THEN <<>>
  ELSE LET last == CHOOSE x \in ids : \A y \in ids : y <= x
       IN <<last>> \o Newest(ids \ {last})

(* sort('-createdAt') on the activity log, whose order is that of creation. *)
NewestFirst(entries) == [i \in 1..Len(entries) |-> entries[Len(entries) + 1 - i]]

(* Faulty variant: the page count is rounded down. *)
pages_floor(total, limit) == total \div limit

(* Math.ceil(total / limit) *)
pages(total, limit) ==
  IF total % limit = 0 THEN total \div limit ELSE (total \div limit) + 1

(* Query strings of the list endpoints: page and limit, or neither. *)
PageQueries == {<<>>} \cup {[page |-> p, limit |-> l] : p \in 1..MaxPage, l \in 1..MaxLimit}

(* const { page = 1, limit = <default> } = req.query;                     *)
(* find(query).sort(..).limit(limit * 1).skip((page - 1) * limit) and the *)
(* pagination object of the response.                                     *)
Paginate(docs, query, defaultLimit) ==
  LET page == IF "page" \in DOMAIN query THEN query.page ELSE 1
      limit == IF "limit" \in DOMAIN query THEN query.limit ELSE defaultLimit
      total == Len(docs)
      skip == (page - 1) * limit
      last == IF skip + limit < total THEN skip + limit ELSE total
  IN [data |-> SubSeq(docs, skip + 1, last),
      pagination |-> [page |-> page, limit |-> limit, total |-> total,
                      pages |-> pages(total, limit)]]

(* ------------------------------------------------------------------ *)
(* utils/activityLogger.js                                             *)
(* ------------------------------------------------------------------ *)

(* Faulty variant: the entry names the project where it should name the entity. *)
Entry_entityIsProject(action, entityType, entityId, user, project) ==
  [action |-> action, entityType |-> entityType, entityId |-> project,
   user |-> user, project |-> project]

(* A document of the ActivityLog collection. *)
Entry(action, entityType, entityId, user, project) ==
  [action |-> action, entityType |-> entityType, entityId |-> entityId,
   user |-> user, project |-> project]

(* Faulty variant: the collection is rewritten, not appended to. *)
logActivity_overwrite(data, persists) ==
  [log |-> IF persists THEN <<data>> ELSE log,
   failed |-> ~persists, threw |-> FALSE]

(* Faulty variant: the persistence failure escapes the try/catch. *)
logActivity_rethrow(data, persists) ==
  [log |-> IF persists THEN Append(log, data) ELSE log,
   failed |-> ~persists, threw |-> ~persists]

(* logActivity: ActivityLog.create(data); a failure is caught and only    *)
(* printed with console.error, never rethrown.                            *)
logActivity(data, persists) ==
  [log |-> IF persists THEN Append(log, data) ELSE log,
   failed |-> ~persists, threw |-> FALSE]

(* ------------------------------------------------------------------ *)
(* middlewares/validation.js                                           *)
(* ------------------------------------------------------------------ *)

validateProject(data) ==
  /\ "name" \in DOMAIN data
  /\ DOMAIN data \subseteq {"name", "description", "members", "status", "startDate", "endDate", "color"}

validateTask(data) ==
  /\ {"title", "project"} \subseteq DOMAIN data
  /\ DOMAIN data \subseteq {"title", "description", "project", "assignedTo", "status",
                            "priority", "dueDate", "tags", "estimatedHours"}

validateComment(data) ==
  /\ {"content", "task"} \subseteq DOMAIN data
  /\ DOMAIN data \subseteq {"content", "task", "attachments"}

(* ------------------------------------------------------------------ *)
(* Request bookkeeping                                                 *)
(* ------------------------------------------------------------------ *)

Snapshot == [projects |-> projects, tasks |-> tasks, comments |-> comments, log |-> log,
             errors |-> errors]

(* The request that was handled, the response it got and the stores as   *)
(* they were when it arrived; errors counts the lines that console.error *)
(* has printed.                                                          *)
Handled(op, user, id, body, status, failed) ==
  /\ req' = [op |-> op, user |-> user, id |-> id, body |-> body]
  /\ res' = [status |-> status]
  /\ pre' = Snapshot
  /\ errors' = IF failed THEN errors + 1 ELSE errors
  /\ inflight' = inflight

(* A list request answered with success: true, a page of data and the   *)
(* pagination object.                                                   *)
Listed(op, user, id, query, page) ==
  /\ req' = [op |-> op, user |-> user, id |-> id, body |-> query]
  /\ res' = [status |-> 200, data |-> page.data, pagination |-> page.pagination]
  /\ pre' = Snapshot
  /\ errors' = errors
  /\ inflight' = inflight

(* The environment.  A run is a scenario that builds up and tears down   *)
(* the stores, followed by MaxProbes requests of any kind by any caller. *)
(* The scenario is made of successful requests by the ordinary users     *)
(* that create or delete an entity or change a member set and whose      *)
(* activity entry persists, while the log has room: A opens the          *)
(* projects, A and B are the users added to and removed from them.       *)
Scripters == {"A", "B"}
ScenarioOps == {"createProject", "deleteProject", "addMember", "removeMember",
                "createTask", "deleteTask", "createComment"}

InScenario(user) ==
  /\ user \in Scripters
  /\ req'.op \in ScenarioOps
  /\ req'.op = "createProject" => user = "A"
  /\ req'.op \in {"addMember", "removeMember"} => req'.body.memberId \in Scripters
  /\ res'.status \in {200, 201}
  /\ stores' # stores
  /\ errors' = errors
  /\ Len(log') <= MaxLog

Running == probes < MaxProbes

Scheduled(user) == probes' = IF InScenario(user) THEN probes ELSE probes + 1

(* Ids a request can name: every id issued so far and 0, an id that has *)
(* the form of an ObjectId but is never issued.                         *)
ProjectIds == 0..(nextProject - 1)
TaskIds == 0..(nextTask - 1)
CommentIds == 0..(nextComment - 1)

Init ==
  /\ projects = <<>>
  /\ tasks = <<>>
  /\ comments = <<>>
  /\ log = <<>>
  /\ nextProject = 1
  /\ nextTask = 1
  /\ nextComment = 1
  /\ req = [op |-> "none", user |-> "A", id |-> 0, body |-> <<>>]
  /\ res = [status |-> 0]
  /\ pre = [projects |-> <<>>, tasks |-> <<>>, comments |-> <<>>, log |-> <<>>, errors |-> 0]
  /\ errors = 0
  /\ probes = 0
  /\ inflight = <<>>

(* ------------------------------------------------------------------ *)
(* controllers/projectController.js                                    *)
(* ------------------------------------------------------------------ *)

(* Request bodies of POST /projects: with and without the required name, *)
(* with a members list, and with a manager, which the schema of           *)
(* validateProject does not know.                                         *)
CreateProjectBodies ==
  {[name |-> "n1"], [description |-> "d"],
   [name |-> "n1", members |-> <<"B", "C">>], [name |-> "n1", manager |-> "C"]}

(* Request bodies of PUT /projects/:id: the handler does not validate. *)
UpdateProjectBodies == {[name |-> "n2"]}

(* Faulty variant: any member passes the check of updateProject. *)
updateProjectDenied_memberMayUpdate(user, project) ==
  ~Includes(project.members, user) /\ project.manager # user

(* The four privileged checks of the project controller. *)
updateProjectDenied(user, project) == project.manager # user /\ Role[user] # "admin"

(* Faulty variant: deleteProject lets any member through. *)
deleteProjectDenied_memberMayDelete(user, project) ==
  ~Includes(project.members, user) /\ project.manager # user /\ Role[user] # "admin"

deleteProjectDenied(user, project) == project.manager # user /\ Role[user] # "admin"

(* Faulty variant: addMember lets any member through. *)
addMemberDenied_memberMayAdd(user, project) ==
  ~Includes(project.members, user) /\ project.manager # user /\ Role[user] # "admin"

addMemberDenied(user, project) == project.manager # user /\ Role[user] # "admin"

removeMemberDenied(user, project) == project.manager # user /\ Role[user] # "admin"

(* Faulty variant: the cascade also removes the comments of the deleted tasks. *)
deleteProjectComments_cascade(id) ==
  Remove(comments, {c \in DOMAIN comments :
                      comments[c].task \in DOMAIN tasks /\ tasks[comments[c].task].project = id})

(* deleteProject issues no delete on the Comment collection. *)
deleteProjectComments(id) == comments

(* Faulty variant: the members of the body override the caller. *)
newProject_bodyMembers(user, body) ==
  [name |-> body.name, manager |-> user,
   members |-> IF "members" \in DOMAIN body THEN body.members ELSE <<user>>]

(* { ...req.body, manager: req.user.id, members: [req.user.id] } *)
newProject(user, body) == [name |-> body.name, manager |-> user, members |-> <<user>>]

(* Faulty variant: the check looks at the first member only. *)
alreadyMember_first(project, memberId) ==
  Len(project.members) > 0 /\ project.members[1] = memberId

(* project.members.includes(memberId) in addMember *)
alreadyMember(project, memberId) == Includes(project.members, memberId)

(* populate("manager", "name email") / populate("members", "name email"): *)
(* the id is replaced by the User document it refers to.                  *)
populate(id) == [_id |-> id, name |-> id]

(* Document.prototype.toString: the printed document, not its id. *)
toString(doc) == "{ _id: " \o doc._id \o ", name: " \o doc.name \o " }"

(* The check of getProject runs on the populated project:                 *)
(* members.includes(req.user.id) compares each member document, converted *)
(* to a string, with the id; manager.toString() is the printed document.  *)
getProjectDenied(user, project) ==
  LET manager == populate(project.manager)
      members == [i \in DOMAIN project.members |-> populate(project.members[i])]
  IN /\ ~\E i \in DOMAIN members : toString(members[i]) = user
     /\ toString(manager) # user

(* Task.aggregate([{ $match: { project } }, { $group: { _id: "$status",   *)
(* count: { $sum: 1 } } }]): one group per status that occurs.            *)
taskStats(id) ==
  LET ofProject == {t \in DOMAIN tasks : tasks[t].project = id}
  IN {[_id |-> st, count |-> Cardinality({t \in ofProject : tasks[t].status = st})] :
        st \in {tasks[t].status : t \in ofProject}}

(* find({ $or: [{ manager: req.user.id }, { members: req.user.id }] }) *)
getProjects(user, query) ==
  /\ UNCHANGED <<projects, tasks, comments, log, nextProject, nextTask, nextComment>>
  /\ LET found == {p \in DOMAIN projects :
                     projects[p].manager = user \/ Includes(projects[p].members, user)}
     IN Listed("getProjects", user, 0, query, Paginate(Newest(found), query, 10))

getProject(user, id) ==
  /\ UNCHANGED <<projects, tasks, comments, log, nextProject, nextTask, nextComment>>
  /\ pre' = Snapshot
  /\ errors' = errors
  /\ inflight' = inflight
  /\ req' = [op |-> "getProject", user |-> user, id |-> id, body |-> <<>>]
  /\ IF id \notin DOMAIN projects
       THEN res' = [status |-> 404]
     ELSE IF getProjectDenied(user, projects[id])
       THEN res' = [status |-> 403]
     ELSE res' = [status |-> 200, data |-> [project |-> projects[id], taskStats |-> taskStats(id)]]

createProject(user, body, persists) ==
  /\ IF ~validateProject(body)
       THEN /\ Handled("createProject", user, 0, body, 400, FALSE)
            /\ UNCHANGED <<projects, tasks, comments, log, nextProject, nextTask, nextComment>>
       ELSE LET id == nextProject
                project == newProject(user, body)
                logged == logActivity(Entry("create", "project", id, user, id), persists)
            IN /\ nextProject <= MaxProjects
               /\ projects' = Insert(projects, id, project)
               /\ nextProject' = nextProject + 1
               /\ log' = logged.log
               /\ Handled("createProject", user, id, body,
                          IF logged.threw THEN 500 ELSE 201, logged.failed)
               /\ UNCHANGED <<tasks, comments, nextTask, nextComment>>

updateProject(user, id, body, persists) ==
  /\ UNCHANGED <<tasks, comments, nextProject, nextTask, nextComment>>
  /\ IF id \notin DOMAIN projects
       THEN Handled("updateProject", user, id, body, 404, FALSE) /\ UNCHANGED <<projects, log>>
     ELSE IF updateProjectDenied(user, projects[id])
       THEN Handled("updateProject", user, id, body, 403, FALSE) /\ UNCHANGED <<projects, log>>
     ELSE LET logged == logActivity(Entry("update", "project", id, user, id), persists)
          IN /\ projects' = [projects EXCEPT ![id] = Merge(@, body)]
             /\ log' = logged.log
             /\ Handled("updateProject", user, id, body,
                        IF logged.threw THEN 500 ELSE 200, logged.failed)

deleteProject(user, id, persists) ==
  /\ UNCHANGED <<nextProject, nextTask, nextComment>>
  /\ IF id \notin DOMAIN projects
       THEN Handled("deleteProject", user, id, <<>>, 404, FALSE)
            /\ UNCHANGED <<projects, tasks, comments, log>>
     ELSE IF deleteProjectDenied(user, projects[id])
       THEN Handled("deleteProject", user, id, <<>>, 403, FALSE)
            /\ UNCHANGED <<projects, tasks, comments, log>>
     ELSE LET logged == logActivity(Entry("delete", "project", id, user, id), persists)
          IN /\ tasks' = Remove(tasks, {t \in DOMAIN tasks : tasks[t].project = id})
             /\ comments' = deleteProjectComments(id)
             /\ projects' = Remove(projects, {id})
             /\ log' = logged.log
             /\ Handled("deleteProject", user, id, <<>>,
                        IF logged.threw THEN 500 ELSE 200, logged.failed)

addMember(user, id, memberId, persists) ==
  /\ UNCHANGED <<tasks, comments, nextProject, nextTask, nextComment>>
  /\ LET body == [memberId |-> memberId]
     IN IF id \notin DOMAIN projects
          THEN Handled("addMember", user, id, body, 404, FALSE) /\ UNCHANGED <<projects, log>>
        ELSE IF addMemberDenied(user, projects[id])
          THEN Handled("addMember", user, id, body, 403, FALSE) /\ UNCHANGED <<projects, log>>
        ELSE IF alreadyMember(projects[id], memberId)
          THEN Handled("addMember", user, id, body, 400, FALSE) /\ UNCHANGED <<projects, log>>
        ELSE LET logged == logActivity(Entry("assign", "project", id, user, id), persists)
             IN /\ projects' = [projects EXCEPT ![id].members = Append(@, memberId)]
                /\ log' = logged.log
                /\ Handled("addMember", user, id, body,
                           IF logged.threw THEN 500 ELSE 200, logged.failed)

(* Faulty variant: removing a user who is not a member is an error, as  *)
(* adding one who is.                                                   *)
removeMember_rejectsAbsent(user, id, memberId) ==
  /\ UNCHANGED <<tasks, comments, log, nextProject, nextTask, nextComment>>
  /\ LET body == [memberId |-> memberId]
     IN IF id \notin DOMAIN projects
          THEN Handled("removeMember", user, id, body, 404, FALSE) /\ UNCHANGED projects
        ELSE IF removeMemberDenied(user, projects[id])
          THEN Handled("removeMember", user, id, body, 403, FALSE) /\ UNCHANGED projects
        ELSE IF ~Includes(projects[id].members, memberId)
          THEN Handled("removeMember", user, id, body, 400, FALSE) /\ UNCHANGED projects
        ELSE /\ projects' = [projects EXCEPT ![id].members = FilterOut(@, memberId)]
             /\ Handled("removeMember", user, id, body, 200, FALSE)

removeMember(user, id, memberId) ==
  /\ UNCHANGED <<tasks, comments, log, nextProject, nextTask, nextComment>>
  /\ LET body == [memberId |-> memberId]
     IN IF id \notin DOMAIN projects
          THEN Handled("removeMember", user, id, body, 404, FALSE) /\ UNCHANGED projects
        ELSE IF removeMemberDenied(user, projects[id])
          THEN Handled("removeMember", user, id, body, 403, FALSE) /\ UNCHANGED projects
        ELSE /\ projects' = [projects EXCEPT ![id].members = FilterOut(@, memberId)]
             /\ Handled("removeMember", user, id, body, 200, FALSE)

(* ------------------------------------------------------------------ *)
(* The task controller                                                 *)
(* ------------------------------------------------------------------ *)

(* Request bodies of POST /tasks: a task for project p, and one that    *)
(* lacks the required project.                                          *)
CreateTaskBodies == {[title |-> "t", project |-> p] : p \in ProjectIds} \cup {[title |-> "t"]}

(* Request bodies of PUT /tasks/:id: the handler does not validate, so  *)
(* every schema path can be set.                                        *)
UpdateTaskBodies ==
  {[status |-> "review"], [createdBy |-> "C"]} \cup {[project |-> p] : p \in ProjectIds}

(* Query strings of GET /tasks: page and limit, without and with a      *)
(* project filter.                                                      *)
TaskQueries ==
  PageQueries \cup {[project |-> p] @@ q : p \in ProjectIds, q \in PageQueries}

(* Faulty variant: the check of getTasks lets everyone through. *)
getTasksDenied_open(user, project) == FALSE

(* The project-scope check of getTasks on the project of the filter. *)
getTasksDenied(user, project) == ~Includes(project.members, user) /\ project.manager # user

(* Faulty variant: the global admin passes the project-scope check. *)
getTaskDenied_adminMayRead(user, project) ==
  ~Includes(project.members, user) /\ project.manager # user /\ Role[user] # "admin"

(* The project-scope checks of the task controller. *)
getTaskDenied(user, project) == ~Includes(project.members, user) /\ project.manager # user

createTaskDenied(user, project) == ~Includes(project.members, user) /\ project.manager # user

(* Faulty variant: updateTask uses the privileged check of deleteTask. *)
updateTaskDenied_privileged(user, project) == project.manager # user /\ Role[user] # "admin"

updateTaskDenied(user, project) == ~Includes(project.members, user) /\ project.manager # user

(* Faulty variant: deleteTask uses the project-scope check of updateTask. *)
deleteTaskDenied_projectScope(user, project) ==
  ~Includes(project.members, user) /\ project.manager # user

(* The privileged check of deleteTask. *)
deleteTaskDenied(user, project) == project.manager # user /\ Role[user] # "admin"

(* Project.findById(project) is used without a null check: a filter    *)
(* that names no stored project makes the check throw.                  *)
getTasks(user, query) ==
  /\ UNCHANGED <<projects, tasks, comments, log, nextProject, nextTask, nextComment>>
  /\ IF "project" \in DOMAIN query /\ query.project \notin DOMAIN projects
       THEN Handled("getTasks", user, 0, query, 500, FALSE)
     ELSE IF "project" \in DOMAIN query /\ getTasksDenied(user, projects[query.project])
       THEN Handled("getTasks", user, 0, query, 403, FALSE)
     ELSE LET found == {t \in DOMAIN tasks :
                          "project" \in DOMAIN query => tasks[t].project = query.project}
          IN Listed("getTasks", user, 0, query, Paginate(Newest(found), query, 10))

getTask(user, id) ==
  /\ UNCHANGED <<projects, tasks, comments, log, nextProject, nextTask, nextComment>>
  /\ IF id \notin DOMAIN tasks
       THEN Handled("getTask", user, id, <<>>, 404, FALSE)
     ELSE IF tasks[id].project \notin DOMAIN projects
       THEN Handled("getTask", user, id, <<>>, 500, FALSE)
     ELSE IF getTaskDenied(user, projects[tasks[id].project])
       THEN Handled("getTask", user, id, <<>>, 403, FALSE)
     ELSE Handled("getTask", user, id, <<>>, 200, FALSE)

createTask(user, body, persists) ==
  /\ UNCHANGED <<projects, comments, nextProject, nextComment>>
  /\ IF ~validateTask(body)
       THEN Handled("createTask", user, 0, body, 400, FALSE)
            /\ UNCHANGED <<tasks, log, nextTask>>
     ELSE IF body.project \notin DOMAIN projects
       THEN Handled("createTask", user, 0, body, 404, FALSE)
            /\ UNCHANGED <<tasks, log, nextTask>>
     ELSE IF createTaskDenied(user, projects[body.project])
       THEN Handled("createTask", user, 0, body, 403, FALSE)
            /\ UNCHANGED <<tasks, log, nextTask>>
     ELSE LET id == nextTask
              task == [title |-> body.title, project |-> body.project,
                       createdBy |-> user, status |-> "todo"]
              logged == logActivity(Entry("create", "task", id, user, body.project), persists)
          IN /\ nextTask <= MaxTasks
             /\ tasks' = Insert(tasks, id, task)
             /\ nextTask' = nextTask + 1
             /\ log' = logged.log
             /\ Handled("createTask", user, id, body,
                        IF logged.threw THEN 500 ELSE 201, logged.failed)

updateTask(user, id, body, persists) ==
  /\ UNCHANGED <<projects, comments, nextProject, nextTask, nextComment>>
  /\ IF id \notin DOMAIN tasks
       THEN Handled("updateTask", user, id, body, 404, FALSE) /\ UNCHANGED <<tasks, log>>
     ELSE IF tasks[id].project \notin DOMAIN projects
       THEN Handled("updateTask", user, id, body, 500, FALSE) /\ UNCHANGED <<tasks, log>>
     ELSE IF updateTaskDenied(user, projects[tasks[id].project])
       THEN Handled("updateTask", user, id, body, 403, FALSE) /\ UNCHANGED <<tasks, log>>
     ELSE LET task == Merge(tasks[id], body)
              logged == logActivity(Entry("update", "task", id, user, task.project), persists)
          IN /\ tasks' = [tasks EXCEPT ![id] = task]
             /\ IF task.project \notin DOMAIN projects
                  THEN Handled("updateTask", user, id, body, 500, FALSE) /\ UNCHANGED log
                  ELSE /\ log' = logged.log
                       /\ Handled("updateTask", user, id, body,
                                  IF logged.threw THEN 500 ELSE 200, logged.failed)

deleteTask(user, id, persists) ==
  /\ UNCHANGED <<projects, comments, nextProject, nextTask, nextComment>>
  /\ IF id \notin DOMAIN tasks
       THEN Handled("deleteTask", user, id, <<>>, 404, FALSE) /\ UNCHANGED <<tasks, log>>
     ELSE IF tasks[id].project \notin DOMAIN projects
       THEN Handled("deleteTask", user, id, <<>>, 500, FALSE) /\ UNCHANGED <<tasks, log>>
     ELSE IF deleteTaskDenied(user, projects[tasks[id].project])
       THEN Handled("deleteTask", user, id, <<>>, 403, FALSE) /\ UNCHANGED <<tasks, log>>
     ELSE LET logged == logActivity(Entry("delete", "task", id, user, tasks[id].project), persists)
          IN /\ tasks' = Remove(tasks, {id})
             /\ log' = logged.log
             /\ Handled("deleteTask", user, id, <<>>,
                        IF logged.threw THEN 500 ELSE 200, logged.failed)

(* ------------------------------------------------------------------ *)
(* The comment controller                                              *)
(* ------------------------------------------------------------------ *)

(* Request bodies of POST /comments: a comment on task t, and one that  *)
(* lacks the required task.                                             *)
CreateCommentBodies == {[content |-> "c1", task |-> t] : t \in TaskIds} \cup {[content |-> "c1"]}

(* Request bodies of PUT /comments/:id. *)
UpdateCommentBodies == {[content |-> "c2"]}

getTaskCommentsDenied(user, project) ==
  ~Includes(project.members, user) /\ project.manager # user

createCommentDenied(user, project) ==
  ~Includes(project.members, user) /\ project.manager # user

(* Faulty variant: the project manager may edit the comments of the project. *)
updateCommentDenied_managerMayEdit(user, comment) ==
  /\ comment.user # user
  /\ Role[user] # "admin"
  /\ ~(comment.task \in DOMAIN tasks /\ tasks[comment.task].project \in DOMAIN projects
       /\ projects[tasks[comment.task].project].manager = user)

(* The ownership checks of the comment controller. *)
updateCommentDenied(user, comment) == comment.user # user /\ Role[user] # "admin"

deleteCommentDenied(user, comment) == comment.user # user /\ Role[user] # "admin"

(* Task.findById(id).populate('project') yields a task whose project    *)
(* can be dereferenced.                                                 *)
TaskWithProject(id) == id \in DOMAIN tasks /\ tasks[id].project \in DOMAIN projects

getTaskComments(user, taskId, query) ==
  /\ UNCHANGED <<projects, tasks, comments, log, nextProject, nextTask, nextComment>>
  /\ IF taskId \notin DOMAIN tasks
       THEN Handled("getTaskComments", user, taskId, query, 404, FALSE)
     ELSE IF tasks[taskId].project \notin DOMAIN projects
       THEN Handled("getTaskComments", user, taskId, query, 500, FALSE)
     ELSE IF getTaskCommentsDenied(user, projects[tasks[taskId].project])
       THEN Handled("getTaskComments", user, taskId, query, 403, FALSE)
     ELSE LET found == {c \in DOMAIN comments : comments[c].task = taskId}
          IN Listed("getTaskComments", user, taskId, query,
                    Paginate(Newest(found), query, 10))

createComment(user, body, persists) ==
  /\ UNCHANGED <<projects, tasks, nextProject, nextTask>>
  /\ IF ~validateComment(body)
       THEN Handled("createComment", user, 0, body, 400, FALSE)
            /\ UNCHANGED <<comments, log, nextComment>>
     ELSE IF body.task \notin DOMAIN tasks
       THEN Handled("createComment", user, 0, body, 404, FALSE)
            /\ UNCHANGED <<comments, log, nextComment>>
     ELSE IF tasks[body.task].project \notin DOMAIN projects
       THEN Handled("createComment", user, 0, body, 500, FALSE)
            /\ UNCHANGED <<comments, log, nextComment>>
     ELSE IF createCommentDenied(user, projects[tasks[body.task].project])
       THEN Handled("createComment", user, 0, body, 403, FALSE)
            /\ UNCHANGED <<comments, log, nextComment>>
     ELSE LET id == nextComment
              comment == [content |-> body.content, task |-> body.task, user |-> user]
              logged == logActivity(Entry("comment", "comment", id, user,
                                          tasks[body.task].project), persists)
          IN /\ nextComment <= MaxComments
             /\ comments' = Insert(comments, id, comment)
             /\ nextComment' = nextComment + 1
             /\ log' = logged.log
             /\ Handled("createComment", user, id, body,
                        IF logged.threw THEN 500 ELSE 201, logged.failed)

updateComment(user, id, body, persists) ==
  /\ UNCHANGED <<projects, tasks, nextProject, nextTask, nextComment>>
  /\ IF id \notin DOMAIN comments
       THEN Handled("updateComment", user, id, body, 404, FALSE) /\ UNCHANGED <<comments, log>>
     ELSE IF updateCommentDenied(user, comments[id])
       THEN Handled("updateComment", user, id, body, 403, FALSE) /\ UNCHANGED <<comments, log>>
     ELSE LET comment == Merge(comments[id], body)
              logged == logActivity(Entry("update", "comment", id, user,
                                          tasks[comment.task].project), persists)
          IN /\ comments' = [comments EXCEPT ![id] = comment]
             /\ IF ~TaskWithProject(comment.task)
                  THEN Handled("updateComment", user, id, body, 500, FALSE) /\ UNCHANGED log
                  ELSE /\ log' = logged.log
                       /\ Handled("updateComment", user, id, body,
                                  IF logged.threw THEN 500 ELSE 200, logged.failed)

deleteComment(user, id, persists) ==
  /\ UNCHANGED <<projects, tasks, nextProject, nextTask, nextComment>>
  /\ IF id \notin DOMAIN comments
       THEN Handled("deleteComment", user, id, <<>>, 404, FALSE) /\ UNCHANGED <<comments, log>>
     ELSE IF deleteCommentDenied(user, comments[id])
       THEN Handled("deleteComment", user, id, <<>>, 403, FALSE) /\ UNCHANGED <<comments, log>>
     ELSE LET comment == comments[id]
              logged == logActivity(Entry("delete", "comment", id, user,
                                          tasks[comment.task].project), persists)
          IN /\ comments' = Remove(comments, {id})
             /\ IF ~TaskWithProject(comment.task)
                  THEN Handled("deleteComment", user, id, <<>>, 500, FALSE) /\ UNCHANGED log
                  ELSE /\ log' = logged.log
                       /\ Handled("deleteComment", user, id, <<>>,
                                  IF logged.threw THEN 500 ELSE 200, logged.failed)

(* ------------------------------------------------------------------ *)
(* controllers/activityController.js                                   *)
(* ------------------------------------------------------------------ *)

(* Queries of GET /activity: page and limit, without and with a         *)
(* projectId filter; a userId filter, without and with a projectId.     *)
ActivityQueries ==
  PageQueries \cup {[projectId |-> p] @@ q : p \in ProjectIds, q \in PageQueries}
    \cup {[userId |-> u] : u \in Users}
    \cup {[projectId |-> p, userId |-> u] : p \in ProjectIds, u \in Users}

(* ActivityLog.find(query).sort('-createdAt'), where query carries the  *)
(* project and the user that the request filters on.                    *)
ActivityLogFind(query) ==
  NewestFirst(SelectSeq(log, LAMBDA e :
    /\ "projectId" \in DOMAIN query => e.project = query.projectId
    /\ "userId" \in DOMAIN query => e.user = query.userId))

(* Faulty variant: the entries come back in the order of creation. *)
ProjectEntries_oldestFirst(projectId) == SelectSeq(log, LAMBDA e : e.project = projectId)

(* ActivityLog.find({ project }).sort('-createdAt') *)
ProjectEntries(projectId) == NewestFirst(SelectSeq(log, LAMBDA e : e.project = projectId))

getActivityLogsDenied(user, project) ==
  ~Includes(project.members, user) /\ project.manager # user

getActivityLogs(user, query) ==
  /\ UNCHANGED <<projects, tasks, comments, log, nextProject, nextTask, nextComment>>
  /\ IF "projectId" \in DOMAIN query /\ query.projectId \notin DOMAIN projects
       THEN Handled("getActivityLogs", user, 0, query, 404, FALSE)
     ELSE IF "projectId" \in DOMAIN query /\ getActivityLogsDenied(user, projects[query.projectId])
       THEN Handled("getActivityLogs", user, 0, query, 403, FALSE)
     ELSE Listed("getActivityLogs", user, 0, query,
                 Paginate(ActivityLogFind(query), query, 20))

getProjectActivityLogsDenied(user, project) ==
  ~Includes(project.members, user) /\ project.manager # user

getProjectActivityLogs(user, projectId, query) ==
  /\ UNCHANGED <<projects, tasks, comments, log, nextProject, nextTask, nextComment>>
  /\ IF projectId \notin DOMAIN projects
       THEN Handled("getProjectActivityLogs", user, projectId, query, 404, FALSE)
     ELSE IF getProjectActivityLogsDenied(user, projects[projectId])
       THEN Handled("getProjectActivityLogs", user, projectId, query, 403, FALSE)
     ELSE Listed("getProjectActivityLogs", user, projectId, query,
                 Paginate(ProjectEntries(projectId), query, 20))

(* ------------------------------------------------------------------ *)
(* Requests arrive one at a time, from any caller, in any order.       *)
(* ------------------------------------------------------------------ *)

Next ==
  \/ \E user \in Users, body \in CreateProjectBodies, persists \in BOOLEAN :
       Running /\ createProject(user, body, persists) /\ Scheduled(user)
  \/ \E user \in Users, id \in ProjectIds, body \in UpdateProjectBodies, persists \in BOOLEAN :
       Running /\ updateProject(user, id, body, persists) /\ Scheduled(user)
  \/ \E user \in Users, id \in ProjectIds, persists \in BOOLEAN :
       Running /\ deleteProject(user, id, persists) /\ Scheduled(user)
  \/ \E user \in Users, id \in ProjectIds, memberId \in Users, persists \in BOOLEAN :
       Running /\ addMember(user, id, memberId, persists) /\ Scheduled(user)
  \/ \E user \in Users, id \in ProjectIds, memberId \in Users :
       Running /\ removeMember(user, id, memberId) /\ Scheduled(user)
  \/ \E user \in Users, query \in PageQueries :
       Running /\ getProjects(user, query) /\ Scheduled(user)
  \/ \E user \in Users, id \in ProjectIds : Running /\ getProject(user, id) /\ Scheduled(user)
  \/ \E user \in Users, query \in TaskQueries :
       Running /\ getTasks(user, query) /\ Scheduled(user)
  \/ \E user \in Users, id \in TaskIds : Running /\ getTask(user, id) /\ Scheduled(user)
  \/ \E user \in Users, body \in CreateTaskBodies, persists \in BOOLEAN :
       Running /\ createTask(user, body, persists) /\ Scheduled(user)
  \/ \E user \in Users, id \in TaskIds, body \in UpdateTaskBodies, persists \in BOOLEAN :
       Running /\ updateTask(user, id, body, persists) /\ Scheduled(user)
  \/ \E user \in Users, id \in TaskIds, persists \in BOOLEAN :
       Running /\ deleteTask(user, id, persists) /\ Scheduled(user)
  \/ \E user \in Users, taskId \in TaskIds, query \in PageQueries :
       Running /\ getTaskComments(user, taskId, query) /\ Scheduled(user)
  \/ \E user \in Users, body \in CreateCommentBodies, persists \in BOOLEAN :
       Running /\ createComment(user, body, persists) /\ Scheduled(user)
  \/ \E user \in Users, id \in CommentIds, body \in UpdateCommentBodies, persists \in BOOLEAN :
       Running /\ updateComment(user, id, body, persists) /\ Scheduled(user)
  \/ \E user \in Users, id \in CommentIds, persists \in BOOLEAN :
       Running /\ deleteComment(user, id, persists) /\ Scheduled(user)
  \/ \E user \in Users, query \in ActivityQueries :
       Running /\ getActivityLogs(user, query) /\ Scheduled(user)
  \/ \E user \in Users, projectId \in ProjectIds, query \in PageQueries :
       Running /\ getProjectActivityLogs(user, projectId, query) /\ Scheduled(user)

Spec == Init /\ [][Next]_vars

(* ------------------------------------------------------------------ *)
(* The end-to-end run of one project and one task: A opens project 1,  *)
(* creates task 1 under it and adds B as a member; from then on B, a   *)
(* plain member, updates the task, opens a project of their own and    *)
(* tries the deletes, while A, the manager, deletes the task, and both *)
(* read the activity of the project.  Every activity entry persists;   *)
(* probes counts the requests of the run, MaxRun of them at most.      *)
(* ------------------------------------------------------------------ *)

Counted == probes' = probes + 1

InRun == probes >= 3 /\ probes < MaxRun

RunNext ==
  \/ probes = 0 /\ createProject("A", [name |-> "n1"], TRUE) /\ Counted
  \/ probes = 1 /\ createTask("A", [title |-> "t", project |-> 1], TRUE) /\ Counted
  \/ probes = 2 /\ addMember("A", 1, "B", TRUE) /\ Counted
  \/ InRun /\ createProject("B", [name |-> "n1"], TRUE) /\ Counted
  \/ \E body \in CreateTaskBodies : InRun /\ createTask("B", body, TRUE) /\ Counted
  \/ \E id \in TaskIds, body \in UpdateTaskBodies :
       InRun /\ updateTask("B", id, body, TRUE) /\ Counted
  \/ \E user \in {"A", "B"}, id \in TaskIds : InRun /\ deleteTask(user, id, TRUE) /\ Counted
  \/ \E id \in ProjectIds : InRun /\ deleteProject("B", id, TRUE) /\ Counted
  \/ \E id \in ProjectIds, memberId \in {"A", "B"} :
       InRun /\ removeMember("B", id, memberId) /\ Counted
  \/ \E user \in {"A", "B"}, id \in ProjectIds :
       InRun /\ getProjectActivityLogs(user, id, <<>>) /\ Counted

SpecRun == Init /\ [][RunNext]_vars

(* ------------------------------------------------------------------ *)
(* Concurrent requests.  A handler runs until its next await and then  *)
(* yields, so the handlers of requests in flight interleave at their   *)
(* awaits: the lookup and the checks that follow it are one step, each *)
(* write to a collection is one step, and the activity entry and the   *)
(* response are the last one.  inflight holds the requests in flight,  *)
(* MaxCalls of them at most: where each handler stands (pc), the       *)
(* document it holds (doc) and its response (status, 0 until it is     *)
(* sent); read keeps the document as the lookup returned it; wrote and *)
(* logged record that its write and its activity entry have been       *)
(* issued.  Every activity entry persists.                             *)
(* ------------------------------------------------------------------ *)

Call(op, user, id, body) ==
  [op |-> op, user |-> user, id |-> id, body |-> body, pc |-> "find", read |-> <<>>,
   doc |-> <<>>, status |-> 0, wrote |-> FALSE, logged |-> FALSE]

(* The handler of call c stands at pc of op. *)
At(c, op, pc) == inflight[c].op = op /\ inflight[c].pc = pc

(* return res.status(status).json(..), or next(error) for 500. *)
Reply(c, status) == inflight' = [inflight EXCEPT ![c].pc = "done", ![c].status = status]

(* The lookup and the checks passed: the handler holds the document. *)
Found(c, doc) ==
  inflight' = [inflight EXCEPT ![c].pc = "write", ![c].read = doc, ![c].doc = doc]

(* The write was issued; the handler holds the document it returned. *)
Written(c, doc) ==
  inflight' = [inflight EXCEPT ![c].pc = "log", ![c].doc = doc, ![c].wrote = TRUE]

(* await logActivity(..) and the success response. *)
Logged(c, entry, status) ==
  /\ log' = logActivity(entry, TRUE).log
  /\ inflight' = [inflight EXCEPT ![c].pc = "done", ![c].status = status, ![c].logged = TRUE]

(* The callers of the concurrent requests: A, who manages project 1, and *)
(* B, who does not and is no admin.                                      *)
Callers == {"A", "B"}

(* Request bodies of PUT /projects/:id, unvalidated: a name, or a member *)
(* list.                                                                 *)
ConcurrentProjectBodies == UpdateProjectBodies \cup {[members |-> <<"B", "B">>]}

(* The requests that can arrive. *)
Requests ==
  {Call("addMember", u, p, [memberId |-> m]) : u \in Callers, p \in ProjectIds, m \in Callers}
  \cup {Call("updateProject", u, p, b) : u \in Callers, p \in ProjectIds,
                                          b \in ConcurrentProjectBodies}
  \cup {Call("updateTask", u, t, b) : u \in Callers, t \in TaskIds, b \in UpdateTaskBodies}
  \cup {Call("createTask", u, 0, b) : u \in Callers, b \in CreateTaskBodies}
  \cup {Call("deleteProject", u, p, <<>>) : u \in Callers, p \in ProjectIds}

(* The requests start when A has opened project 1 and created task 1.  *)
ConcurrentInit ==
  /\ projects = (1 :> newProject("A", [name |-> "n1"]))
  /\ tasks = (1 :> [title |-> "t", project |-> 1, createdBy |-> "A", status |-> "todo"])
  /\ comments = <<>>
  /\ log = << Entry("create", "project", 1, "A", 1), Entry("create", "task", 1, "A", 1) >>
  /\ nextProject = 2
  /\ nextTask = 2
  /\ nextComment = 1
  /\ req = [op |-> "none", user |-> "A", id |-> 0, body |-> <<>>]
  /\ res = [status |-> 0]
  /\ pre = [projects |-> <<>>, tasks |-> <<>>, comments |-> <<>>, log |-> <<>>, errors |-> 0]
  /\ errors = 0
  /\ probes = 0
  /\ inflight = <<>>

(* What no step of a concurrent request touches. *)
Aside == UNCHANGED <<comments, nextProject, nextComment, req, res, pre, errors, probes>>

arrive(call) ==
  /\ Len(inflight) < MaxCalls
  /\ inflight' = Append(inflight, call)
  /\ UNCHANGED <<projects, tasks, log, nextTask>>

(* addMember: findById and the three checks; push and save; the entry. *)
addMemberFind(c) ==
  LET call == inflight[c]
  IN /\ At(c, "addMember", "find")
     /\ UNCHANGED <<projects, tasks, log, nextTask>>
     /\ IF call.id \notin DOMAIN projects THEN Reply(c, 404)
        ELSE IF addMemberDenied(call.user, projects[call.id]) THEN Reply(c, 403)
        ELSE IF alreadyMember(projects[call.id], call.body.memberId) THEN Reply(c, 400)
        ELSE Found(c, projects[call.id])

(* project.members.push(memberId); await project.save(): the save sends *)
(* the push, which the store applies to the member list it holds; the   *)
(* save of a document that is gone fails.                               *)
addMemberSave(c) ==
  LET call == inflight[c]
  IN /\ At(c, "addMember", "write")
     /\ UNCHANGED <<tasks, log, nextTask>>
     /\ IF call.id \notin DOMAIN projects
          THEN Reply(c, 500) /\ UNCHANGED projects
          ELSE /\ projects' = [projects EXCEPT ![call.id].members = Append(@, call.body.memberId)]
               /\ Written(c, projects'[call.id])

addMemberLog(c) ==
  LET call == inflight[c]
  IN /\ At(c, "addMember", "log")
     /\ UNCHANGED <<projects, tasks, nextTask>>
     /\ Logged(c, Entry("assign", "project", call.id, call.user, call.id), 200)

(* updateProject: findById and the check; findByIdAndUpdate; the entry. *)
updateProjectFind(c) ==
  LET call == inflight[c]
  IN /\ At(c, "updateProject", "find")
     /\ UNCHANGED <<projects, tasks, log, nextTask>>
     /\ IF call.id \notin DOMAIN projects THEN Reply(c, 404)
        ELSE IF updateProjectDenied(call.user, projects[call.id]) THEN Reply(c, 403)
        ELSE Found(c, projects[call.id])

(* findByIdAndUpdate(id, req.body, { new: true }): the store sets the  *)
(* fields of the body on the document it holds; when the document is   *)
(* gone the result is null and building the entry throws.              *)
updateProjectUpdate(c) ==
  LET call == inflight[c]
  IN /\ At(c, "updateProject", "write")
     /\ UNCHANGED <<tasks, log, nextTask>>
     /\ IF call.id \notin DOMAIN projects
          THEN Reply(c, 500) /\ UNCHANGED projects
          ELSE /\ projects' = [projects EXCEPT ![call.id] = Merge(@, call.body)]
               /\ Written(c, projects'[call.id])

updateProjectLog(c) ==
  LET call == inflight[c]
  IN /\ At(c, "updateProject", "log")
     /\ UNCHANGED <<projects, tasks, nextTask>>
     /\ Logged(c, Entry("update", "project", call.id, call.user, call.id), 200)

(* updateTask: findById with its project and the check;                *)
(* findByIdAndUpdate; the entry.                                       *)
updateTaskFind(c) ==
  LET call == inflight[c]
  IN /\ At(c, "updateTask", "find")
     /\ UNCHANGED <<projects, tasks, log, nextTask>>
     /\ IF call.id \notin DOMAIN tasks THEN Reply(c, 404)
        ELSE IF tasks[call.id].project \notin DOMAIN projects THEN Reply(c, 500)
        ELSE IF updateTaskDenied(call.user, projects[tasks[call.id].project]) THEN Reply(c, 403)
        ELSE Found(c, tasks[call.id])

(* Faulty variant: the body is merged into the task the handler read,  *)
(* and the result replaces the stored task.                            *)
updateTaskUpdate_intoRead(c) ==
  LET call == inflight[c]
      task == Merge(call.doc, call.body)
  IN /\ At(c, "updateTask", "write")
     /\ UNCHANGED <<projects, log, nextTask>>
     /\ IF call.id \notin DOMAIN tasks
          THEN Reply(c, 500) /\ UNCHANGED tasks
          ELSE /\ tasks' = [tasks EXCEPT ![call.id] = task]
               /\ IF task.project \notin DOMAIN projects
                    THEN inflight' = [inflight EXCEPT ![c].pc = "done", ![c].status = 500,
                                                      ![c].doc = task, ![c].wrote = TRUE]
                    ELSE Written(c, task)

(* findByIdAndUpdate(id, req.body, { new: true }).populate('project'): *)
(* the store sets the fields of the body on the task it holds; when    *)
(* the task is gone, or the project it now names is, building the      *)
(* entry throws.                                                       *)
updateTaskUpdate(c) ==
  LET call == inflight[c]
      task == Merge(tasks[call.id], call.body)
  IN /\ At(c, "updateTask", "write")
     /\ UNCHANGED <<projects, log, nextTask>>
     /\ IF call.id \notin DOMAIN tasks
          THEN Reply(c, 500) /\ UNCHANGED tasks
          ELSE /\ tasks' = [tasks EXCEPT ![call.id] = task]
               /\ IF task.project \notin DOMAIN projects
                    THEN inflight' = [inflight EXCEPT ![c].pc = "done", ![c].status = 500,
                                                      ![c].doc = task, ![c].wrote = TRUE]
                    ELSE Written(c, task)

updateTaskLog(c) ==
  LET call == inflight[c]
  IN /\ At(c, "updateTask", "log")
     /\ UNCHANGED <<projects, tasks, nextTask>>
     /\ Logged(c, Entry("update", "task", call.id, call.user, call.doc.project), 200)

(* Faulty variant: the entry is written as soon as the checks pass,    *)
(* before the task is created.                                         *)
createTaskFind_logsFirst(c) ==
  LET call == inflight[c]
  IN /\ At(c, "createTask", "find")
     /\ UNCHANGED <<projects, tasks, nextTask>>
     /\ IF ~validateTask(call.body) THEN Reply(c, 400) /\ UNCHANGED log
        ELSE IF call.body.project \notin DOMAIN projects THEN Reply(c, 404) /\ UNCHANGED log
        ELSE IF createTaskDenied(call.user, projects[call.body.project])
          THEN Reply(c, 403) /\ UNCHANGED log
        ELSE /\ log' = logActivity(Entry("create", "task", nextTask, call.user,
                                         call.body.project), TRUE).log
             /\ inflight' = [inflight EXCEPT ![c].pc = "write",
                                             ![c].read = projects[call.body.project],
                                             ![c].doc = projects[call.body.project],
                                             ![c].logged = TRUE]

(* createTask: validateTask, findById of the project and the check;    *)
(* Task.create; the entry.                                             *)
createTaskFind(c) ==
  LET call == inflight[c]
  IN /\ At(c, "createTask", "find")
     /\ UNCHANGED <<projects, tasks, log, nextTask>>
     /\ IF ~validateTask(call.body) THEN Reply(c, 400)
        ELSE IF call.body.project \notin DOMAIN projects THEN Reply(c, 404)
        ELSE IF createTaskDenied(call.user, projects[call.body.project]) THEN Reply(c, 403)
        ELSE Found(c, projects[call.body.project])

(* Task.create({ ...req.body, createdBy }): nothing looks at the       *)
(* project again.                                                      *)
createTaskCreate(c) ==
  LET call == inflight[c]
      task == [title |-> call.body.title, project |-> call.body.project,
               createdBy |-> call.user, status |-> "todo"]
  IN /\ At(c, "createTask", "write")
     /\ nextTask <= MaxTasks
     /\ UNCHANGED <<projects, log>>
     /\ tasks' = Insert(tasks, nextTask, task)
     /\ nextTask' = nextTask + 1
     /\ inflight' = [inflight EXCEPT ![c].pc = "log", ![c].id = nextTask, ![c].wrote = TRUE]

createTaskLog(c) ==
  LET call == inflight[c]
  IN /\ At(c, "createTask", "log")
     /\ UNCHANGED <<projects, tasks, nextTask>>
     /\ Logged(c, Entry("create", "task", call.id, call.user, call.body.project), 201)

(* deleteProject: findById and the check; Task.deleteMany;             *)
(* Project.findByIdAndDelete; the entry.                               *)
deleteProjectFind(c) ==
  LET call == inflight[c]
  IN /\ At(c, "deleteProject", "find")
     /\ UNCHANGED <<projects, tasks, log, nextTask>>
     /\ IF call.id \notin DOMAIN projects THEN Reply(c, 404)
        ELSE IF deleteProjectDenied(call.user, projects[call.id]) THEN Reply(c, 403)
        ELSE Found(c, projects[call.id])

deleteProjectTasks(c) ==
  LET call == inflight[c]
  IN /\ At(c, "deleteProject", "write")
     /\ UNCHANGED <<projects, log, nextTask>>
     /\ tasks' = Remove(tasks, {t \in DOMAIN tasks : tasks[t].project = call.id})
     /\ inflight' = [inflight EXCEPT ![c].pc = "delete"]

deleteProjectDelete(c) ==
  LET call == inflight[c]
  IN /\ At(c, "deleteProject", "delete")
     /\ UNCHANGED <<tasks, log, nextTask>>
     /\ projects' = Remove(projects, {call.id})
     /\ Written(c, call.doc)

deleteProjectLog(c) ==
  LET call == inflight[c]
  IN /\ At(c, "deleteProject", "log")
     /\ UNCHANGED <<projects, tasks, nextTask>>
     /\ Logged(c, Entry("delete", "project", call.id, call.user, call.id), 200)

ConcurrentNext ==
  \/ \E call \in Requests : arrive(call) /\ Aside
  \/ \E c \in DOMAIN inflight : addMemberFind(c) /\ Aside
  \/ \E c \in DOMAIN inflight : addMemberSave(c) /\ Aside
  \/ \E c \in DOMAIN inflight : addMemberLog(c) /\ Aside
  \/ \E c \in DOMAIN inflight : updateProjectFind(c) /\ Aside
  \/ \E c \in DOMAIN inflight : updateProjectUpdate(c) /\ Aside
  \/ \E c \in DOMAIN inflight : updateProjectLog(c) /\ Aside
  \/ \E c \in DOMAIN inflight : updateTaskFind(c) /\ Aside
  \/ \E c \in DOMAIN inflight : updateTaskUpdate(c) /\ Aside
  \/ \E c \in DOMAIN inflight : updateTaskLog(c) /\ Aside
  \/ \E c \in DOMAIN inflight : createTaskFind(c) /\ Aside
  \/ \E c \in DOMAIN inflight : createTaskCreate(c) /\ Aside
  \/ \E c \in DOMAIN inflight : createTaskLog(c) /\ Aside
  \/ \E c \in DOMAIN inflight : deleteProjectFind(c) /\ Aside
  \/ \E c \in DOMAIN inflight : deleteProjectTasks(c) /\ Aside
  \/ \E c \in DOMAIN inflight : deleteProjectDelete(c) /\ Aside
  \/ \E c \in DOMAIN inflight : deleteProjectLog(c) /\ Aside

SpecConcurrent == ConcurrentInit /\ [][ConcurrentNext]_vars

(* ------------------------------------------------------------------ *)
(* Vocabulary of the properties                                        *)
(* ------------------------------------------------------------------ *)

Success == res.status \in {200, 201}

StoresUnchanged ==
  /\ projects = pre.projects
  /\ tasks = pre.tasks
  /\ comments = pre.comments
  /\ log = pre.log

IsMember(user, project) == user \in {project.members[i] : i \in DOMAIN project.members}

InProject(user, project) == project.manager = user \/ IsMember(user, project)

Privileged(user, project) == project.manager = user \/ Role[user] = "admin"

(* Task t was stored, under a stored project, when the request arrived. *)
HadTask(t) == t \in DOMAIN pre.tasks /\ pre.tasks[t].project \in DOMAIN pre.projects

HadProject(p) == p \in DOMAIN pre.projects

(* The requests under the project-scope check, and the project each     *)
(* ladders up to.                                                       *)
HasScope ==
  CASE req.op \in {"getTask", "updateTask", "getTaskComments"} -> HadTask(req.id)
    [] req.op = "createTask" -> validateTask(req.body) /\ HadProject(req.body.project)
    [] req.op = "createComment" -> validateComment(req.body) /\ HadTask(req.body.task)
    [] req.op = "getProjectActivityLogs" -> HadProject(req.id)
    [] OTHER -> FALSE

ScopeProject ==
  CASE req.op \in {"getTask", "updateTask", "getTaskComments"} -> pre.tasks[req.id].project
    [] req.op = "createTask" -> req.body.project
    [] req.op = "createComment" -> pre.tasks[req.body.task].project
    [] req.op = "getProjectActivityLogs" -> req.id

C2_UpdateSucceedsDeleteDenied ==
  /\ (req.op = "updateTask" /\ HadTask(req.id)
        /\ InProject(req.user, pre.projects[pre.tasks[req.id].project]))
     => Success
  /\ (req.op = "deleteTask" /\ HadTask(req.id)
        /\ IsMember(req.user, pre.projects[pre.tasks[req.id].project])
        /\ ~Privileged(req.user, pre.projects[pre.tasks[req.id].project]))
     => /\ res.status = 403
        /\ req.id \in DOMAIN tasks
        /\ tasks[req.id] = pre.tasks[req.id]

(* C3: update-comment and delete-comment on a stored comment are refused   *)
(* with 403, the stores unchanged, for every caller who is neither the     *)
(* author nor an admin, the project manager included; the author and the   *)
(* admin pass the check and the comment is updated or deleted, member of   *)
(* the project or not.                                                     *)
C3_CommentOwnership ==
  (req.op \in {"updateComment", "deleteComment"} /\ req.id \in DOMAIN pre.comments) =>
    LET owner == pre.comments[req.id].user = req.user \/ Role[req.user] = "admin"
    IN /\ ~owner => (res.status = 403 /\ StoresUnchanged)
       /\ owner => /\ res.status # 403
                   /\ req.op = "updateComment" =>
                        (req.id \in DOMAIN comments
                         /\ comments[req.id].content = req.body.content)
                   /\ req.op = "deleteComment" => req.id \notin DOMAIN comments

(* The manager of the project is refused on a comment another user wrote. *)
C3_ManagerDenied ==
  /\ req.op \in {"updateComment", "deleteComment"}
  /\ req.id \in DOMAIN pre.comments
  /\ HadTask(pre.comments[req.id].task)
  /\ pre.projects[pre.tasks[pre.comments[req.id].task].project].manager = req.user
  /\ pre.comments[req.id].user # req.user
  /\ res.status = 403

PrivilegedOps == {"updateProject", "deleteProject", "addMember", "removeMember"}

(* C4: update-project, delete-project, add-member and remove-member on a   *)
(* stored project P succeed only for P's manager and for an admin; every   *)
(* other caller, a plain member included, gets 403 and nothing changes.    *)
C4_PrivilegedProjectOps ==
  (req.op \in PrivilegedOps /\ HadProject(req.id)) =>
    LET P == pre.projects[req.id]
    IN /\ Success => Privileged(req.user, P)
       /\ ~Privileged(req.user, P) => (res.status = 403 /\ StoresUnchanged)

(* A plain member of the project is refused when adding a member. *)
C4_MemberDenied ==
  /\ req.op = "addMember"
  /\ HadProject(req.id)
  /\ IsMember(req.user, pre.projects[req.id])
  /\ ~Privileged(req.user, pre.projects[req.id])
  /\ ~IsMember(req.body.memberId, pre.projects[req.id])
  /\ res.status = 403

(* C5 as stated: any member of P may update P (and delete-project needs    *)
(* the manager or an admin).                                               *)
C5_MemberMayUpdateProject ==
  /\ (req.op = "updateProject" /\ HadProject(req.id) /\ IsMember(req.user, pre.projects[req.id]))
     => Success
  /\ (req.op = "deleteProject" /\ HadProject(req.id) /\ Success)
     => Privileged(req.user, pre.projects[req.id])

(* C5 amended: the update check on a Task is the project-scope check, but  *)
(* the update check on a Project is the manager-or-admin check, the same   *)
(* as for delete-project: a member of P who is neither is refused by both. *)
C5_UpdateChecks ==
  /\ (req.op = "updateTask" /\ HadTask(req.id))
     => (res.status # 403 <=> InProject(req.user, pre.projects[pre.tasks[req.id].project]))
  /\ (req.op \in {"updateProject", "deleteProject"} /\ HadProject(req.id))
     => (res.status = 403 <=> ~Privileged(req.user, pre.projects[req.id]))

(* A plain member of the project is refused when updating the project. *)
C5_MemberUpdateDenied ==
  /\ req.op = "updateProject"
  /\ HadProject(req.id)
  /\ IsMember(req.user, pre.projects[req.id])
  /\ ~Privileged(req.user, pre.projects[req.id])
  /\ res.status = 403

CudOps == {"createProject", "updateProject", "deleteProject",
           "createTask", "updateTask", "deleteTask",
           "createComment", "updateComment", "deleteComment"}

ActionOf(op) ==
  CASE op \in {"createProject", "createTask", "createComment"} -> "create"
    [] op \in {"updateProject", "updateTask", "updateComment"} -> "update"
    [] op \in {"deleteProject", "deleteTask", "deleteComment"} -> "delete"

EntityTypeOf(op) ==
  CASE op \in {"createProject", "updateProject", "deleteProject"} -> "project"
    [] op \in {"createTask", "updateTask", "deleteTask"} -> "task"
    [] op \in {"createComment", "updateComment", "deleteComment"} -> "comment"

(* The request added exactly one entry at the end of the log. *)
OneAppended == Len(log) = Len(pre.log) + 1 /\ SubSeq(log, 1, Len(pre.log)) = pre.log

LastEntry == log[Len(log)]

(* console.error reported a failed write of the activity entry. *)
LoggingFailed == errors # pre.errors

(* C6 as stated: every successful create, update or delete request on a    *)
(* Project, Task or Comment appends exactly one entry whose action is      *)
(* create, update or delete, whose entityType and entityId name the        *)
(* entity and whose user is the caller (read in its favour: when the       *)
(* write of the entry does not fail).                                      *)
C6_OneEntryPerMutation ==
  (req.op \in CudOps /\ Success /\ ~LoggingFailed) =>
    /\ OneAppended
    /\ LastEntry.action = ActionOf(req.op)
    /\ LastEntry.entityType = EntityTypeOf(req.op)
    /\ LastEntry.entityId = req.id
    /\ LastEntry.user = req.user

(* C6 amended: every successful create, update or delete request on a      *)
(* Project, Task or Comment appends exactly one entry, or none when the    *)
(* write of the entry fails; the entry's action is create, update or       *)
(* delete, except that a created comment is logged with action comment;    *)
(* its entityType and entityId name the entity and its user is the caller. *)
C6_EntryPerMutation ==
  (req.op \in CudOps /\ Success) =>
    IF LoggingFailed
      THEN log = pre.log
      ELSE /\ OneAppended
           /\ LastEntry.action = (IF req.op = "createComment" THEN "comment"
                                                               ELSE ActionOf(req.op))
           /\ LastEntry.entityType = EntityTypeOf(req.op)
           /\ LastEntry.entityId = req.id
           /\ LastEntry.user = req.user

(* A created comment was logged, with action comment. *)
C6_CommentLogged ==
  /\ req.op = "createComment"
  /\ Success
  /\ OneAppended
  /\ LastEntry.action = "comment"
  /\ LastEntry.entityId = req.id
  /\ req.id # pre.tasks[req.body.task].project

(* The project a successful mutating request belongs to. *)
MutatedProject ==
  CASE req.op \in {"createProject", "updateProject", "deleteProject", "addMember", "removeMember"}
         -> req.id
    [] req.op = "createTask" -> req.body.project
    [] req.op = "updateTask" -> tasks[req.id].project
    [] req.op = "deleteTask" -> pre.tasks[req.id].project
    [] req.op = "createComment" -> pre.tasks[req.body.task].project
    [] req.op \in {"updateComment", "deleteComment"}
         -> pre.tasks[pre.comments[req.id].task].project

(* C7: every successful mutating request on a Project, Task or Comment,    *)
(* a change of a project's member set by add-member or remove-member       *)
(* included, appends an entry scoped to the project with the caller as     *)
(* user (when the write of the entry does not fail).                       *)
C7_EveryMutationLogged ==
  (/\ req.op \in CudOps \cup {"addMember", "removeMember"}
   /\ Success
   /\ req.op \in {"addMember", "removeMember"} => projects # pre.projects
   /\ ~LoggingFailed)
  => /\ OneAppended
     /\ LastEntry.user = req.user
     /\ LastEntry.project = MutatedProject

(* log is a prefix of log'. *)
IsPrefix(a, b) == Len(a) <= Len(b) /\ \A i \in 1..Len(a) : b[i] = a[i]

(* C8: the activity log is append-only: every entry stays where it is with *)
(* all its fields in every later state, so the log never shrinks, and the  *)
(* two activity-list requests do not write.                                *)
C8_AppendOnly ==
  [][/\ IsPrefix(log, log')
     /\ req'.op \in {"getActivityLogs", "getProjectActivityLogs"} => log' = log]_vars

(* A project was deleted and the entries about it are still in the log. *)
C8_LogOutlivesProject ==
  /\ req.op = "deleteProject"
  /\ Success
  /\ Len(pre.log) >= 2
  /\ \A i \in 1..Len(pre.log) : log[i] = pre.log[i]
  /\ \E i \in 1..Len(pre.log) : pre.log[i].project = req.id

(* The primary mutation of the request is in the stores. *)
Applied ==
  CASE req.op = "createProject" -> req.id \in DOMAIN projects \ DOMAIN pre.projects
    [] req.op = "createTask" -> req.id \in DOMAIN tasks \ DOMAIN pre.tasks
    [] req.op = "createComment" -> req.id \in DOMAIN comments \ DOMAIN pre.comments
    [] req.op = "updateProject" ->
         req.id \in DOMAIN projects /\ \A f \in DOMAIN req.body : projects[req.id][f] = req.body[f]
    [] req.op = "updateTask" ->
         req.id \in DOMAIN tasks /\ \A f \in DOMAIN req.body : tasks[req.id][f] = req.body[f]
    [] req.op = "updateComment" ->
         req.id \in DOMAIN comments /\ \A f \in DOMAIN req.body : comments[req.id][f] = req.body[f]
    [] req.op = "deleteProject" -> req.id \in DOMAIN pre.projects \ DOMAIN projects
    [] req.op = "deleteTask" -> req.id \in DOMAIN pre.tasks \ DOMAIN tasks
    [] req.op = "deleteComment" -> req.id \in DOMAIN pre.comments \ DOMAIN comments
    [] req.op = "addMember" ->
         /\ IsMember(req.body.memberId, projects[req.id])
         /\ ~IsMember(req.body.memberId, pre.projects[req.id])
    [] OTHER -> FALSE

(* C9: when persisting the activity entry fails during a create, update,   *)
(* delete or add-member request, the primary mutation stays applied and    *)
(* the caller still gets the success response.                             *)
C9_LoggingFailureSwallowed ==
  LoggingFailed => (Success /\ Applied /\ log = pre.log)

(* A task was deleted although its activity entry could not be written. *)
C9_DeleteTaskLogFailed ==
  /\ req.op = "deleteTask"
  /\ LoggingFailed
  /\ Success
  /\ req.id \notin DOMAIN tasks

(* C10: after a successful delete-project of P, P is gone and no stored    *)
(* task has project P, every comment is still stored unchanged, those of   *)
(* the deleted tasks included, and the tasks of other projects are as      *)
(* they were.                                                              *)
C10_DeleteProjectCascade ==
  (req.op = "deleteProject" /\ Success) =>
    /\ req.id \notin DOMAIN projects
    /\ \A t \in DOMAIN tasks : tasks[t].project # req.id
    /\ comments = pre.comments
    /\ \A t \in DOMAIN pre.tasks :
         pre.tasks[t].project # req.id => (t \in DOMAIN tasks /\ tasks[t] = pre.tasks[t])

(* The deleted project had a task with a comment, which is now without    *)
(* its task, and another project's task is still stored.                  *)
C10_CommentOrphaned ==
  /\ req.op = "deleteProject"
  /\ Success
  /\ \E c \in DOMAIN comments :
       /\ comments[c].task \in DOMAIN pre.tasks
       /\ pre.tasks[comments[c].task].project = req.id
       /\ comments[c].task \notin DOMAIN tasks
  /\ \E t \in DOMAIN tasks : tasks[t].project # req.id

(* C11: an add-member request by the manager or an admin for a user who is *)
(* already in the project's members returns 400 and leaves the members,   *)
(* the activity log and every other store as they were.                   *)
C11_DuplicateMemberRejected ==
  (/\ req.op = "addMember"
   /\ HadProject(req.id)
   /\ Privileged(req.user, pre.projects[req.id])
   /\ IsMember(req.body.memberId, pre.projects[req.id]))
  => (res.status = 400 /\ StoresUnchanged)

(* The manager adds again a user who was added to the project before. *)
C11_AddedTwice ==
  /\ req.op = "addMember"
  /\ HadProject(req.id)
  /\ pre.projects[req.id].manager = req.user
  /\ req.body.memberId # req.user
  /\ IsMember(req.body.memberId, pre.projects[req.id])
  /\ res.status = 400
  /\ projects[req.id].members = pre.projects[req.id].members

(* The users in a member list. *)
MemberSet(project) == {project.members[i] : i \in DOMAIN project.members}

(* C12: a remove-member request by the manager or an admin succeeds; the   *)
(* user is then not a member and the other members are as before; when    *)
(* the user was not a member nothing changes, so that removing the same   *)
(* user a second time yields the member set of the first removal.         *)
C12_RemoveAbsentMember ==
  (/\ req.op = "removeMember"
   /\ HadProject(req.id)
   /\ Privileged(req.user, pre.projects[req.id]))
  => /\ Success
     /\ MemberSet(projects[req.id]) = MemberSet(pre.projects[req.id]) \ {req.body.memberId}
     /\ ~IsMember(req.body.memberId, pre.projects[req.id]) => StoresUnchanged

(* A user who was added and removed before is removed once more. *)
C12_RemovedTwice ==
  /\ req.op = "removeMember"
  /\ HadProject(req.id)
  /\ \E i \in 1..Len(pre.log) : pre.log[i].action = "assign" /\ pre.log[i].project = req.id
  /\ Len(pre.projects[req.id].members) = 1
  /\ ~IsMember(req.body.memberId, pre.projects[req.id])
  /\ Success
  /\ projects = pre.projects

(* C13: a task's project and createdBy never change after creation: every *)
(* task that a request leaves stored has the project and the createdBy it *)
(* had before the request, whatever the body of an update-task carries.   *)
C13_ProjectAndCreatorFixed ==
  \A t \in DOMAIN tasks \cap DOMAIN pre.tasks :
    /\ tasks[t].project = pre.tasks[t].project
    /\ tasks[t].createdBy = pre.tasks[t].createdBy

(* C14: a create-project request with a valid body, by a caller of any     *)
(* role, stores a new project whose manager is the caller and whose       *)
(* members are the caller alone, whatever members the body names (a body  *)
(* that names a manager is not valid).                                    *)
C14_CreatorIsManagerAndSoleMember ==
  (req.op = "createProject" /\ validateProject(req.body)) =>
    /\ res.status = 201
    /\ req.id \in DOMAIN projects \ DOMAIN pre.projects
    /\ projects[req.id].manager = req.user
    /\ projects[req.id].members = <<req.user>>

(* A caller with the global role user opens a project with a body that   *)
(* names two other users as members.                                     *)
C14_BodyMembersIgnored ==
  /\ req.op = "createProject"
  /\ Role[req.user] = "user"
  /\ "members" \in DOMAIN req.body
  /\ req.body.members # <<req.user>>
  /\ res.status = 201
  /\ projects[req.id].members = <<req.user>>

(* The requests that name a project, task or comment, and whether the    *)
(* id they name was stored when the request arrived.                     *)
Referenced ==
  CASE req.op \in {"getProject", "updateProject", "deleteProject", "addMember", "removeMember",
                   "getProjectActivityLogs"} -> TRUE
    [] req.op \in {"getTask", "updateTask", "deleteTask", "getTaskComments"} -> TRUE
    [] req.op \in {"updateComment", "deleteComment"} -> TRUE
    [] req.op = "createTask" -> validateTask(req.body)
    [] req.op = "createComment" -> validateComment(req.body)
    [] req.op = "getTasks" -> "project" \in DOMAIN req.body
    [] req.op = "getActivityLogs" -> "projectId" \in DOMAIN req.body
    [] OTHER -> FALSE

Resolves ==
  CASE req.op \in {"getProject", "updateProject", "deleteProject", "addMember", "removeMember",
                   "getProjectActivityLogs"} -> req.id \in DOMAIN pre.projects
    [] req.op \in {"getTask", "updateTask", "deleteTask", "getTaskComments"}
         -> req.id \in DOMAIN pre.tasks
    [] req.op \in {"updateComment", "deleteComment"} -> req.id \in DOMAIN pre.comments
    [] req.op = "createTask" -> req.body.project \in DOMAIN pre.projects
    [] req.op = "createComment" -> req.body.task \in DOMAIN pre.tasks
    [] req.op = "getTasks" -> req.body.project \in DOMAIN pre.projects
    [] req.op = "getActivityLogs" -> req.body.projectId \in DOMAIN pre.projects

(* C15: every handler resolves existence before authorization before      *)
(* mutation: a request that names a project, task or comment id that is   *)
(* not stored gets 404 whatever the caller's role or membership, 403 is   *)
(* returned only when the entity is stored, and in both cases the stores  *)
(* stay as they were.                                                     *)
C15_ExistenceBeforeAuthorization ==
  /\ (Referenced /\ ~Resolves) => (res.status = 404 /\ StoresUnchanged)
  /\ res.status = 403 => (Referenced /\ Resolves /\ StoresUnchanged)

(* C17: GET /projects/:id on a stored project by its manager or one of    *)
(* its members returns success with the project and a histogram whose     *)
(* count for each status is the number of stored tasks of the project in  *)
(* that status; every other caller gets 403.                              *)
C17_ProjectWithHistogram ==
  (req.op = "getProject" /\ HadProject(req.id)) =>
    IF InProject(req.user, pre.projects[req.id])
      THEN /\ Success
           /\ res.data.project = pre.projects[req.id]
           /\ \A g \in res.data.taskStats :
                g.count = Cardinality({t \in DOMAIN tasks :
                                         tasks[t].project = req.id /\ tasks[t].status = g._id})
           /\ \A t \in DOMAIN tasks :
                tasks[t].project = req.id => \E g \in res.data.taskStats : g._id = tasks[t].status
      ELSE res.status = 403

ListOps == {"getProjects", "getTasks", "getTaskComments", "getActivityLogs",
            "getProjectActivityLogs"}

(* The number of stored entities that match the query of a list request. *)
Matching ==
  CASE req.op = "getProjects" ->
         Cardinality({p \in DOMAIN projects : InProject(req.user, projects[p])})
    [] req.op = "getTasks" ->
         Cardinality({t \in DOMAIN tasks :
                        "project" \in DOMAIN req.body => tasks[t].project = req.body.project})
    [] req.op = "getTaskComments" ->
         Cardinality({c \in DOMAIN comments : comments[c].task = req.id})
    [] req.op = "getActivityLogs" ->
         Cardinality({i \in 1..Len(log) :
                        /\ "projectId" \in DOMAIN req.body => log[i].project = req.body.projectId
                        /\ "userId" \in DOMAIN req.body => log[i].user = req.body.userId})
    [] req.op = "getProjectActivityLogs" ->
         Cardinality({i \in 1..Len(log) : log[i].project = req.id})

(* C19: for every list request with limit >= 1 that succeeds, total is    *)
(* the number of stored entities that match the query, pages is           *)
(* ceil(total / limit), the least n with n * limit >= total, and a page   *)
(* greater than pages comes back with success and an empty data sequence. *)
C19_Pagination ==
  (req.op \in ListOps /\ Success /\ res.pagination.limit >= 1) =>
    LET pg == res.pagination
    IN /\ pg.total = Matching
       /\ pg.pages * pg.limit >= pg.total
       /\ (pg.pages - 1) * pg.limit < pg.total \/ (pg.pages = 0 /\ pg.total = 0)
       /\ pg.page > pg.pages => res.data = <<>>
       /\ Len(res.data) <= pg.limit

(* One entity matches, the limit is two, and page two is asked for. *)
C19_PageBeyondLast ==
  /\ req.op \in ListOps
  /\ Success
  /\ res.pagination.total = 1
  /\ res.pagination.limit = 2
  /\ res.pagination.pages = 1
  /\ res.pagination.page = 2
  /\ res.data = <<>>

(* Properties of the end-to-end run (SpecRun).                            *)

(* The fifth request of the run reads the activity of project 1 with the  *)
(* default page, and the fourth was B's update of the status of task 1.   *)
ListedAfterUpdate ==
  /\ probes = 5
  /\ req.op = "getProjectActivityLogs"
  /\ req.id = 1
  /\ req.body = <<>>
  /\ 1 \in DOMAIN pre.tasks
  /\ pre.tasks[1].status = "review"

(* What the run says about the deletes: B's delete of the task is refused *)
(* and the task stays; A's delete succeeds and appends the delete entry,  *)
(* which the next reading of the project's activity shows first.          *)
RunDeletes ==
  /\ (req.op = "deleteTask" /\ HadTask(req.id) /\ pre.tasks[req.id].project = 1
        /\ req.user = "B")
     => (res.status = 403 /\ StoresUnchanged)
  /\ (req.op = "deleteTask" /\ HadTask(req.id) /\ pre.tasks[req.id].project = 1
        /\ req.user = "A")
     => /\ Success
        /\ req.id \notin DOMAIN tasks
        /\ OneAppended
        /\ LastEntry = Entry("delete", "task", req.id, "A", 1)
  /\ (req.op = "getProjectActivityLogs" /\ req.id = 1 /\ req.body = <<>> /\ Success
        /\ Len(log) > 0 /\ LastEntry.project = 1)
     => res.data[1] = LastEntry

(* C16 as stated: after A created project P and task T, added B, and B    *)
(* updated T, the activity of P has 3 entries, newest first: the task     *)
(* update, the task create, the project create; B's delete of T then      *)
(* returns 403, A's succeeds and the log records it.                      *)
C16_ThreeEntries ==
  /\ ListedAfterUpdate =>
       /\ Success
       /\ res.data = << Entry("update", "task", 1, "B", 1),
                        Entry("create", "task", 1, "A", 1),
                        Entry("create", "project", 1, "A", 1) >>
  /\ RunDeletes

(* C16 amended: the activity of P then has 4 entries, newest first: the   *)
(* task update by B, the member assign by A, the task create and the      *)
(* project create by A; B's delete of T returns 403, A's succeeds and the *)
(* log records the delete.                                                *)
C16_FourEntries ==
  /\ ListedAfterUpdate =>
       /\ Success
       /\ res.data = << Entry("update", "task", 1, "B", 1),
                        Entry("assign", "project", 1, "A", 1),
                        Entry("create", "task", 1, "A", 1),
                        Entry("create", "project", 1, "A", 1) >>
  /\ RunDeletes

(* Eight requests in, with no other project or task opened, the activity *)
(* of P reads, newest first: T deleted by A, T updated by B, B assigned, *)
(* T created, P created.                                                 *)
C16_RunCompleted ==
  /\ probes = 8
  /\ nextProject = 2
  /\ nextTask = 2
  /\ req.op = "getProjectActivityLogs"
  /\ req.id = 1
  /\ Success
  /\ res.data = << Entry("delete", "task", 1, "A", 1),
                   Entry("update", "task", 1, "B", 1),
                   Entry("assign", "project", 1, "A", 1),
                   Entry("create", "task", 1, "A", 1),
                   Entry("create", "project", 1, "A", 1) >>

(* C20: task 1, created under project 1, stops existing only through a    *)
(* delete-task or delete-project request whose caller is the manager of   *)
(* project 1 or an admin; B, who is only a member of project 1, cannot    *)
(* bring about its removal by any of the requests B can make.             *)
C20_OnlyManagerRemovesTask ==
  (1 \in DOMAIN pre.tasks /\ 1 \notin DOMAIN tasks) =>
    /\ req.op \in {"deleteTask", "deleteProject"}
    /\ req.user = "A" \/ Role[req.user] = "admin"

(* ------------------------------------------------------------------ *)
(* Properties of concurrent requests                                   *)
(* ------------------------------------------------------------------ *)

(* The calls whose activity entry has been written. *)
LoggedCalls == {c \in DOMAIN inflight : inflight[c].logged}

(* The calls answered with status. *)
Answered(status) == {c \in DOMAIN inflight : inflight[c].pc = "done" /\ inflight[c].status = status}

C22_MembersFormSet ==
  \A p \in DOMAIN projects : Cardinality(MemberSet(projects[p])) = Len(projects[p].members)

(* Call c has issued the update of its entity. *)
Updated(c) == inflight[c].op \in {"updateProject", "updateTask"} /\ inflight[c].wrote

(* The stored entity that update call c is about, <<>> once it is gone. *)
Target(c) ==
  IF inflight[c].op = "updateTask"
    THEN IF inflight[c].id \in DOMAIN tasks THEN tasks[inflight[c].id] ELSE <<>>
    ELSE IF inflight[c].id \in DOMAIN projects THEN projects[inflight[c].id] ELSE <<>>

(* The fields that the write of call c sets. *)
Patched(c) == IF inflight[c].op = "addMember" THEN {"members"} ELSE DOMAIN inflight[c].body

(* Calls c and d write to the same entity. *)
SameEntity(c, d) ==
  /\ inflight[c].id = inflight[d].id
  /\ (inflight[c].op = "updateTask") = (inflight[d].op = "updateTask")
  /\ {inflight[c].op, inflight[d].op} \subseteq {"updateTask", "updateProject", "addMember"}

(* C23: when two update requests on the same task or project, in       *)
(* flight together, patch disjoint fields and both writes have been    *)
(* issued, the stored entity carries the fields of both bodies, as     *)
(* long as it is stored and no third write has set those fields.       *)
C23_DisjointUpdatesBothApply ==
  \A c, d \in DOMAIN inflight :
    (/\ c # d
     /\ Updated(c) /\ Updated(d)
     /\ SameEntity(c, d)
     /\ Patched(c) \cap Patched(d) = {}
     /\ Target(c) # <<>>
     /\ \A e \in DOMAIN inflight \ {c, d} :
          ~(inflight[e].wrote /\ SameEntity(c, e)
              /\ Patched(e) \cap (Patched(c) \cup Patched(d)) # {}))
    => /\ \A f \in Patched(c) : Target(c)[f] = inflight[c].body[f]
       /\ \A f \in Patched(d) : Target(c)[f] = inflight[d].body[f]

(* Two updates of task 1 by A, one of the status and one of the        *)
(* creator, both looked the task up before either wrote, both were     *)
(* answered 200, and the stored task carries both changes.             *)
C23_BothPatchesStored ==
  \E c, d \in Answered(200) :
    /\ inflight[c].op = "updateTask" /\ inflight[d].op = "updateTask"
    /\ inflight[c].id = 1 /\ inflight[d].id = 1
    /\ inflight[c].body = [status |-> "review"]
    /\ inflight[d].body = [createdBy |-> "C"]
    /\ inflight[c].read = [title |-> "t", project |-> 1, createdBy |-> "A", status |-> "todo"]
    /\ inflight[d].read = inflight[c].read
    /\ tasks[1] = [title |-> "t", project |-> 1, createdBy |-> "C", status |-> "review"]

(* C24: the project of every stored task is a stored project, also     *)
(* while create-task and update-task requests interleave with a        *)
(* delete-project request and whatever project an update-task body     *)
(* names.                                                              *)
C24_TaskProjectStored == \A t \in DOMAIN tasks : tasks[t].project \in DOMAIN projects

(* C25: a request answered 400, 403, 404 or 500 leaves the projects,   *)
(* the tasks, the comments and the activity log as they were when it   *)
(* arrived, update-comment and delete-comment on a comment whose task  *)
(* is gone included.                                                   *)
C25_FailureLeavesStores == res.status \in {400, 403, 404, 500} => StoresUnchanged

(* C26: the activity entries that list-all activity, with or without   *)
(* projectId and userId filters, and list-for-project return to a      *)
(* caller never include an entry of a stored project that the caller   *)
(* neither manages nor is a member of.                                 *)
C26_NoForeignActivity ==
  (req.op \in {"getActivityLogs", "getProjectActivityLogs"} /\ Success) =>
    \A i \in DOMAIN res.data :
      res.data[i].project \in DOMAIN projects =>
        InProject(req.user, projects[res.data[i].project])

====
